---- MODULE Spec2Model ----
(***************************************************************************)
(* The recycle-bin lifecycle of the To-do List App.                        *)
(*                                                                         *)
(* The Express server (backend/server.js) keeps two JSON files:            *)
(* todos.json, the Active Set, and recycled.json, the Recycle Set.  Every  *)
(* handler reads the files it needs, works on the parsed arrays and writes *)
(* them back before it answers; Node runs a handler to completion, so one  *)
(* request is one step.                                                    *)
(*                                                                         *)
(* A task is a JSON object: here a function from field names to values,    *)
(* so that a field can be present or absent as in the code.  Timestamps    *)
(* are whole seconds on the server's clock; toISOString() followed by      *)
(* new Date() gives back the instant it was given, so an ISO string is     *)
(* represented by its instant.  The server is assumed to run in a time     *)
(* zone with a fixed offset, where setDate(getDate() - 30) is 30 * 24h.    *)
(***************************************************************************)
EXTENDS Integers, Sequences, FiniteSets, TLC

VARIABLES
    todos,      \* contents of data/todos.json    (Active Set)
    recycled,   \* contents of data/recycled.json (Recycle Set)
    now,        \* the server's clock, in seconds
    issued,     \* number of identifiers uuidv4() has produced
    req,        \* the last request: method and path under /api/todos
    res,        \* the response to it
    purged,     \* identifiers removed by a successful DELETE /api/todos/:id
    events,     \* number of events so far: requests answered and clock ticks
    ui,         \* the browser: where showRecycleBin stands, the tasks it lists,
                \* the last alert
    loop,       \* Node's event loop: requests waiting, handlers under way
    local       \* the browser's localStorage: todoTasks and recycledTasks

vars == <<todos, recycled, now, issued, req, res, purged, events, ui, loop, local>>

---------------------------------------------------------------------------
(* Bounds                                                                  *)

MaxEvents == 4      \* number of events (requests, clock ticks) in a run of Spec
MaxBin == 3          \* length of the recycle bin handed to a retention sweep
MaxCallers == 2     \* number of requests that reach the server together
MaxMoves == 2       \* number of requests in a run of SpecOrder

---------------------------------------------------------------------------
(* Program constants                                                       *)

RetentionDays == 30
DaySeconds    == 24 * 60 * 60
Window        == RetentionDays * DaySeconds

NotFoundTodo     == "Todo not found"
NotFoundRecycled == "Recycled todo not found"

---------------------------------------------------------------------------
(* JavaScript objects and arrays                                           *)

Has(o, k) == k \in DOMAIN o

\* { ...a, ...b }
Spread(a, b) ==
    [k \in DOMAIN a \cup DOMAIN b |-> IF k \in DOMAIN b THEN b[k] ELSE a[k]]

\* delete o[k]
Without(o, k) == [f \in DOMAIN o \ {k} |-> o[f]]

\* arr.findIndex(todo => todo.id === id); 0 stands for JavaScript's -1
FindIndex(arr, id) ==
    IF \E i \in 1..Len(arr) : arr[i].id = id
    THEN CHOOSE i \in 1..Len(arr) :
            /\ arr[i].id = id
            /\ \A j \in 1..(i - 1) : arr[j].id # id
    ELSE 0

\* arr.splice(i, 1): the array that is left
Splice(arr, i) == SubSeq(arr, 1, i - 1) \o SubSeq(arr, i + 1, Len(arr))

\* the k-th value of uuidv4(): a fresh string each call
Uuid(k) == "u" \o ToString(k)

IdsOf(arr) == {arr[i].id : i \in 1..Len(arr)}

\* a request without a body; also JSON.stringify(undefined)
NoBody == [x \in {} |-> 0]

---------------------------------------------------------------------------
(* Express routing: the routes under /api/todos in the order they are      *)
(* registered.  A path is the sequence of segments after /api/todos; the   *)
(* first registered route whose method and pattern match gets the request, *)
(* and no handler passes the request on.                                   *)

Routes == <<
    [method |-> "GET",    pattern |-> << >>,               handler |-> "getTodos"],
    [method |-> "POST",   pattern |-> << >>,               handler |-> "postTodo"],
    [method |-> "PUT",    pattern |-> <<":id">>,            handler |-> "putTodo"],
    [method |-> "PATCH",  pattern |-> <<":id", "toggle">>,  handler |-> "toggle"],
    [method |-> "PATCH",  pattern |-> <<":id", "recycle">>, handler |-> "recycle"],
    [method |-> "GET",    pattern |-> <<"recycled">>,       handler |-> "getRecycled"],
    [method |-> "PATCH",  pattern |-> <<":id", "restore">>, handler |-> "restore"],
    [method |-> "DELETE", pattern |-> <<":id">>,            handler |-> "deleteTodo"],
    [method |-> "DELETE", pattern |-> <<"cleanup">>,        handler |-> "cleanup"] >>

Matches(route, method, path) ==
    /\ route.method = method
    /\ Len(route.pattern) = Len(path)
    /\ \A i \in 1..Len(path) :
          route.pattern[i] = ":id" \/ route.pattern[i] = path[i]

Dispatch(method, path) ==
    IF \E n \in 1..Len(Routes) : Matches(Routes[n], method, path)
    THEN Routes[CHOOSE n \in 1..Len(Routes) :
                    /\ Matches(Routes[n], method, path)
                    /\ \A m \in 1..(n - 1) : ~Matches(Routes[m], method, path)
               ].handler
    ELSE "none"

---------------------------------------------------------------------------
(* The handlers.  Each takes the two files as read, the request and the    *)
(* clock, and gives the two files as written and the response.             *)

Reply(T, R, status, body) ==
    [todos |-> T, recycled |-> R, res |-> [status |-> status, body |-> body]]

\* POST /api/todos
postTodo(T, R, body, uuid, t) ==
    LET newTodo == Spread(Spread([id |-> uuid], body), [createdAt |-> t])
    IN  Reply(Append(T, newTodo), R, 201, newTodo)

\* putTodo without lines 86-88, storing the body as a new task when no task
\* carries the identifier
putTodoUpsert(T, R, id, body, t) ==
    LET todoIndex == FindIndex(T, id)
        updated   == IF todoIndex = 0
                     THEN Spread(Spread([id |-> id], body), [updatedAt |-> t])
                     ELSE Spread(Spread(T[todoIndex], body), [updatedAt |-> t])
    IN  IF todoIndex = 0
        THEN Reply(Append(T, updated), R, 200, updated)
        ELSE Reply([T EXCEPT ![todoIndex] = updated], R, 200, updated)

\* PUT /api/todos/:id
putTodo(T, R, id, body, t) ==
    LET todoIndex == FindIndex(T, id)
        updated   == Spread(Spread(T[todoIndex], body), [updatedAt |-> t])
    IN  IF todoIndex = 0
        THEN Reply(T, R, 404, [error |-> NotFoundTodo])
        ELSE Reply([T EXCEPT ![todoIndex] = updated], R, 200, updated)

\* !todo.completed, where an absent field reads as undefined
Negated(todo) == IF Has(todo, "completed") THEN ~todo.completed ELSE TRUE

\* PATCH /api/todos/:id/toggle
toggle(T, R, id, t) ==
    LET todoIndex == FindIndex(T, id)
        updated   == Spread(T[todoIndex],
                            [completed |-> Negated(T[todoIndex]), updatedAt |-> t])
    IN  IF todoIndex = 0
        THEN Reply(T, R, 404, [error |-> NotFoundTodo])
        ELSE Reply([T EXCEPT ![todoIndex] = updated], R, 200, updated)

\* recycle without line 129: the task is moved but not stamped
recycleNoStamp(T, R, id, t) ==
    LET todoIndex   == FindIndex(T, id)
        removedTodo == T[todoIndex]
    IN  IF todoIndex = 0
        THEN Reply(T, R, 404, [error |-> NotFoundTodo])
        ELSE Reply(Splice(T, todoIndex), Append(R, removedTodo), 200, removedTodo)

\* recycle stamping the day the task is due to be purged instead of the
\* time of the deletion
recycleStampsExpiry(T, R, id, t) ==
    LET todoIndex   == FindIndex(T, id)
        removedTodo == Spread(T[todoIndex], [deletedAt |-> t + Window])
    IN  IF todoIndex = 0
        THEN Reply(T, R, 404, [error |-> NotFoundTodo])
        ELSE Reply(Splice(T, todoIndex), Append(R, removedTodo), 200, removedTodo)

\* PATCH /api/todos/:id/recycle
recycle(T, R, id, t) ==
    LET todoIndex   == FindIndex(T, id)
        removedTodo == Spread(T[todoIndex], [deletedAt |-> t])
    IN  IF todoIndex = 0
        THEN Reply(T, R, 404, [error |-> NotFoundTodo])
        ELSE Reply(Splice(T, todoIndex), Append(R, removedTodo), 200, removedTodo)

\* restore with todos.unshift in the place of todos.push: the restored task
\* goes to the head of the Active Set
restoreUnshift(T, R, id, t) ==
    LET recycledIndex == FindIndex(R, id)
        restoredTodo  == Spread(Without(R[recycledIndex], "deletedAt"),
                                [restoredAt |-> t])
    IN  IF recycledIndex = 0
        THEN Reply(T, R, 404, [error |-> NotFoundRecycled])
        ELSE Reply(<<restoredTodo>> \o T, Splice(R, recycledIndex), 200, restoredTodo)

\* restore without line 157: deletedAt stays on the restored task
restoreKeepsDeletedAt(T, R, id, t) ==
    LET recycledIndex == FindIndex(R, id)
        restoredTodo  == Spread(R[recycledIndex], [restoredAt |-> t])
    IN  IF recycledIndex = 0
        THEN Reply(T, R, 404, [error |-> NotFoundRecycled])
        ELSE Reply(Append(T, restoredTodo), Splice(R, recycledIndex), 200, restoredTodo)

\* PATCH /api/todos/:id/restore
restore(T, R, id, t) ==
    LET recycledIndex == FindIndex(R, id)
        restoredTodo  == Spread(Without(R[recycledIndex], "deletedAt"),
                                [restoredAt |-> t])
    IN  IF recycledIndex = 0
        THEN Reply(T, R, 404, [error |-> NotFoundRecycled])
        ELSE Reply(Append(T, restoredTodo), Splice(R, recycledIndex), 200, restoredTodo)

\* deleteTodo without lines 174-176: recycled.splice(-1, 1) takes the last
\* element of the array
deleteTodoNoCheck(T, R, id) ==
    LET recycledIndex == FindIndex(R, id)
        at            == IF recycledIndex = 0 THEN Len(R) ELSE recycledIndex
    IN  IF R = << >>
        THEN Reply(T, R, 200, NoBody)
        ELSE Reply(T, Splice(R, at), 200, R[at])

\* DELETE /api/todos/:id
deleteTodo(T, R, id) ==
    LET recycledIndex == FindIndex(R, id)
    IN  IF recycledIndex = 0
        THEN Reply(T, R, 404, [error |-> NotFoundRecycled])
        ELSE Reply(T, Splice(R, recycledIndex), 200, R[recycledIndex])

\* deletedAt >= thirtyDaysAgo; new Date(undefined) is an Invalid Date, and
\* every comparison with it is false
ServerKeeps(todo, t) == Has(todo, "deletedAt") /\ todo.deletedAt >= t - Window

\* cleanup written as a loop that splices the array it walks: the task that
\* follows a removed one is passed over
RECURSIVE SpliceWhileWalking(_, _, _)
SpliceWhileWalking(R, i, t) ==
    IF i > Len(R) THEN R
    ELSE IF ServerKeeps(R[i], t) THEN SpliceWhileWalking(R, i + 1, t)
    ELSE SpliceWhileWalking(Splice(R, i), i + 1, t)

cleanupSplicing(T, R, t) ==
    LET filteredRecycled == SpliceWhileWalking(R, 1, t)
        removedCount     == Len(R) - Len(filteredRecycled)
    IN  Reply(T, filteredRecycled, 200, [removedCount |-> removedCount])

\* cleanup stamping the tasks it keeps with the time of the sweep
cleanupRestamps(T, R, t) ==
    LET Keep(todo)       == ServerKeeps(todo, t)
        kept             == SelectSeq(R, Keep)
        filteredRecycled == [i \in 1..Len(kept) |-> Spread(kept[i], [deletedAt |-> t])]
        removedCount     == Len(R) - Len(filteredRecycled)
    IN  Reply(T, filteredRecycled, 200, [removedCount |-> removedCount])

\* DELETE /api/todos/cleanup
cleanup(T, R, t) ==
    LET Keep(todo)       == ServerKeeps(todo, t)
        filteredRecycled == SelectSeq(R, Keep)    \* recycled.filter
        removedCount     == Len(R) - Len(filteredRecycled)
    IN  Reply(T, filteredRecycled, 200, [removedCount |-> removedCount])

\* StorageKeeps with a window of 29 days
StorageKeepsADayLess(task, t) ==
    Has(task, "deletedAt") /\ task.deletedAt > t - (Window - DaySeconds)

\* Storage.cleanupRecycleBin (js/storage.js): deletedDate > thirtyDaysAgo
StorageKeeps(task, t) == Has(task, "deletedAt") /\ task.deletedAt > t - Window

cleanupRecycleBin(recycledTasks, t) ==
    LET Keep(task) == StorageKeeps(task, t)
    IN  SelectSeq(recycledTasks, Keep)

---------------------------------------------------------------------------
(* The Storage module (js/storage.js).  It keeps the tasks in localStorage *)
(* under the keys todoTasks and recycledTasks; a key never set reads as    *)
(* the empty array.  Each function takes localStorage as it is and the     *)
(* clock, and gives localStorage as the function leaves it.                *)

LocalEmpty == [todoTasks |-> << >>, recycledTasks |-> << >>]

\* arr.filter(task => task.id !== taskId)
RECURSIVE FilterOut(_, _)
FilterOut(arr, taskId) ==
    IF arr = << >> THEN << >>
    ELSE IF Head(arr).id = taskId THEN FilterOut(Tail(arr), taskId)
    ELSE <<Head(arr)>> \o FilterOut(Tail(arr), taskId)

\* Storage.addTask: task.id = Date.now().toString()
addTask(ls, task, t) ==
    [ls EXCEPT !.todoTasks = Append(@, Spread(task, [id |-> ToString(t)]))]

\* Storage.updateTask
updateTask(ls, taskId, updatedTask) ==
    LET index == FindIndex(ls.todoTasks, taskId)
    IN  IF index # 0
        THEN [ls EXCEPT !.todoTasks[index] = Spread(@, updatedTask)]
        ELSE ls

\* Storage.toggleTaskStatus
toggleTaskStatus(ls, taskId) ==
    LET index == FindIndex(ls.todoTasks, taskId)
    IN  IF index # 0
        THEN [ls EXCEPT !.todoTasks[index] = Spread(@, [completed |-> Negated(@)])]
        ELSE ls

\* Storage.deleteTask: the declaration of line 127, which replaces the one
\* of line 63
deleteTask(ls, taskId, t) ==
    LET taskIndex     == FindIndex(ls.todoTasks, taskId)
        taskToRecycle == Spread(ls.todoTasks[taskIndex], [deletedAt |-> t])
    IN  IF taskIndex # 0
        THEN [todoTasks     |-> Splice(ls.todoTasks, taskIndex),
              recycledTasks |-> Append(ls.recycledTasks, taskToRecycle)]
        ELSE ls

\* Storage.permanentlyDeleteTask
permanentlyDeleteTask(ls, taskId) ==
    [ls EXCEPT !.recycledTasks = FilterOut(@, taskId)]

\* restoreTask with the restored task pushed without the splice that takes
\* it out of the bin
restoreTaskCopies(ls, taskId) ==
    LET taskIndex     == FindIndex(ls.recycledTasks, taskId)
        taskToRestore == Without(ls.recycledTasks[taskIndex], "deletedAt")
    IN  IF taskIndex # 0
        THEN [ls EXCEPT !.todoTasks = Append(@, taskToRestore)]
        ELSE ls

\* Storage.restoreTask
restoreTask(ls, taskId) ==
    LET taskIndex     == FindIndex(ls.recycledTasks, taskId)
        taskToRestore == Without(ls.recycledTasks[taskIndex], "deletedAt")
    IN  IF taskIndex # 0
        THEN [todoTasks     |-> Append(ls.todoTasks, taskToRestore),
              recycledTasks |-> Splice(ls.recycledTasks, taskIndex)]
        ELSE ls

\* What the server does with a request
Handle(T, R, method, path, body, uuid, t) ==
    LET h == Dispatch(method, path)
    IN  CASE h = "postTodo"   -> postTodo(T, R, body, uuid, t)
          [] h = "putTodo"    -> putTodo(T, R, path[1], body, t)
          [] h = "toggle"     -> toggle(T, R, path[1], t)
          [] h = "recycle"    -> recycle(T, R, path[1], t)
          [] h = "restore"    -> restore(T, R, path[1], t)
          [] h = "deleteTodo" -> deleteTodo(T, R, path[1])
          [] h = "cleanup"    -> cleanup(T, R, t)
          [] h = "getTodos"   -> Reply(T, R, 200, T)
          [] h = "getRecycled" -> Reply(T, R, 200, R)
          [] OTHER            -> Reply(T, R, 404, [error |-> "Cannot " \o method])

---------------------------------------------------------------------------
(* Requests                                                                *)

\* identifiers a client can name: those the server has handed out, and the
\* word the cleanup request carries in the place of an identifier
KnownIds == {Uuid(k) : k \in 1..issued} \cup {"cleanup"}

\* what the add-task form sends
FormBody == [title |-> "Buy milk", completed |-> FALSE]

\* bodies of POST /api/todos: the form's, and ones a client other than the
\* form can send: an empty title, fields of their own
PostBodies ==
    {FormBody, Spread(FormBody, [title |-> ""]), Spread(FormBody, [deletedAt |-> 0])}
        \cup {Spread(FormBody, [id |-> i]) : i \in KnownIds}

\* bodies of PUT /api/todos/:id
PutBodies ==
    {[title |-> "Call mom"], [title |-> ""], [deletedAt |-> 0]}
        \cup {[id |-> i] : i \in KnownIds}

\* The server answers a request
Answer(method, path, body) ==
    LET out == Handle(todos, recycled, method, path, body, Uuid(issued + 1), now)
    IN  /\ todos' = out.todos
        /\ recycled' = out.recycled
        /\ req' = [method |-> method, path |-> path]
        /\ res' = out.res
        /\ issued' = IF Dispatch(method, path) = "postTodo" THEN issued + 1 ELSE issued
        /\ purged' = IF Dispatch(method, path) = "deleteTodo" /\ out.res.status = 200
                     THEN purged \cup {path[1]} ELSE purged
        /\ UNCHANGED now

\* A request of a run of Spec, sent with the view of the recycle bin closed
Serve(method, path, body) ==
    /\ events < MaxEvents
    /\ events' = events + 1
    /\ Answer(method, path, body)
    /\ UNCHANGED <<ui, loop, local>>

PostTodo ==
    /\ \E body \in PostBodies : Serve("POST", << >>, body)

PutTodo == \E id \in KnownIds, body \in PutBodies : Serve("PUT", <<id>>, body)

PatchToggle == \E id \in KnownIds : Serve("PATCH", <<id, "toggle">>, NoBody)

PatchRecycle == \E id \in KnownIds : Serve("PATCH", <<id, "recycle">>, NoBody)

PatchRestore == \E id \in KnownIds : Serve("PATCH", <<id, "restore">>, NoBody)

\* DELETE /api/todos/<segment>, the cleanup request included
DeleteRequest == \E seg \in KnownIds : Serve("DELETE", <<seg>>, NoBody)

Tick ==
    /\ events < MaxEvents
    /\ events' = events + 1
    /\ now' = now + 1
    /\ UNCHANGED <<todos, recycled, issued, req, res, purged, ui, loop, local>>

\* the view of the recycle bin not open, nothing listed
ViewClosed == [pc |-> "idle", shown |-> << >>, alert |-> ""]

\* no request waiting, no handler under way
LoopIdle ==
    [queue |-> {}, frames |-> {},
     first |-> [todos |-> << >>, recycled |-> << >>, queue |-> {}]]

Init ==
    /\ local = LocalEmpty
    /\ ui = ViewClosed
    /\ loop = LoopIdle
    /\ todos = << >>
    /\ recycled = << >>
    /\ now = 0
    /\ issued = 0
    /\ req = [method |-> "", path |-> << >>]
    /\ res = [status |-> 0, body |-> NoBody]
    /\ purged = {}
    /\ events = 0

Next ==
    \/ PostTodo
    \/ PutTodo
    \/ PatchToggle
    \/ PatchRecycle
    \/ PatchRestore
    \/ DeleteRequest
    \/ Tick

Spec == Init /\ [][Next]_vars

---------------------------------------------------------------------------
(* The retention sweep on its own.  SpecSweep starts from a recycle bin    *)
(* as PATCH /api/todos/:id/recycle leaves it (tasks in the order they were *)
(* deleted, the clock never running backwards) and runs the handler        *)
(* registered for DELETE /api/todos/cleanup on it, with the clock moving   *)
(* on by a second between runs.                                            *)

\* how long before SweepNow the tasks of the bin were deleted
Ages == {5 * DaySeconds, 20 * DaySeconds, 40 * DaySeconds,
         Window - 1, Window, Window + 1}

SweepNow == 50 * DaySeconds

\* ages of a bin's tasks, oldest deletion first
AgeLists ==
    {a \in UNION {[1..n -> Ages] : n \in 0..MaxBin} :
        \A i \in 1..(Len(a) - 1) : a[i] >= a[i + 1]}

BinOf(a) ==
    [k \in 1..Len(a) |->
        [id |-> Uuid(k), title |-> "Buy milk", completed |-> FALSE,
         createdAt |-> 0, deletedAt |-> SweepNow - a[k]]]

InitSweep ==
    /\ local = LocalEmpty
    /\ ui = ViewClosed
    /\ loop = LoopIdle
    /\ todos = << >>
    /\ \E a \in AgeLists : recycled = BinOf(a) /\ issued = Len(a)
    /\ now = SweepNow
    /\ req = [method |-> "", path |-> << >>]
    /\ res = [status |-> 0, body |-> NoBody]
    /\ purged = {}
    /\ events = 0

\* the cleanup handler, given a request
CleanupHandler ==
    LET out == cleanup(todos, recycled, now)
    IN  /\ events < MaxEvents
        /\ events' = events + 1
        /\ todos' = out.todos
        /\ recycled' = out.recycled
        /\ req' = [method |-> "DELETE", path |-> <<"cleanup">>]
        /\ res' = out.res
        /\ UNCHANGED <<now, issued, purged, ui, loop, local>>

NextSweep ==
    \/ CleanupHandler
    \/ Tick

SpecSweep == InitSweep /\ [][NextSweep]_vars

---------------------------------------------------------------------------
(* The recycle bin view (js/app.js, showRecycleBin).  SpecBin starts from  *)
(* the bins of SpecSweep, some of their tasks past the retention window,   *)
(* and lets the user open the view again and again: the view fetches the   *)
(* recycled tasks and lists them, and once the modal is built sends the    *)
(* cleanup request.  The clock stands still: time passing only makes the   *)
(* tasks older.                                                            *)

\* response.ok
Ok(response) == response.status \in 200..299

\* ApiService.getRecycledTasks: the parsed body, or [] when the request failed
getRecycledTasks(response) == IF Ok(response) THEN response.body ELSE << >>

\* showRecycleBin up to the list: lines 622-680
ShowRecycleBinList ==
    /\ ui.pc = "idle"
    /\ Answer("GET", <<"recycled">>, NoBody)
    /\ ui' = [ui EXCEPT !.pc = "listed", !.shown = getRecycledTasks(res')]
    /\ UNCHANGED <<events, loop, local>>

\* showRecycleBin, 'Run cleanup on open': line 782
ShowRecycleBinCleanup ==
    /\ ui.pc = "listed"
    /\ Answer("DELETE", <<"cleanup">>, NoBody)
    /\ ui' = [ui EXCEPT !.pc = "idle"]
    /\ UNCHANGED <<events, loop, local>>

NextBin ==
    \/ ShowRecycleBinList
    \/ ShowRecycleBinCleanup

\* the user keeps opening the view, and a request sent is answered
SpecBin ==
    /\ InitSweep
    /\ [][NextBin]_vars
    /\ WF_vars(ShowRecycleBinList)
    /\ WF_vars(ShowRecycleBinCleanup)

---------------------------------------------------------------------------
(* The page (js/app.js).  SpecApp adds to the view of the recycle bin its  *)
(* buttons, Restore and Empty Recycle Bin, and the Delete button of the    *)
(* task list.  The task list can be out of date (the task was deleted from *)
(* another window), so Delete can name any task the server has had.        *)

PlacedInBin == "Task has been placed in the recycle bin."

\* Empty Recycle Bin, confirmed: lines 741-757.  The button is there when
\* the view lists a task.
EmptyBinClick ==
    /\ ui.pc = "idle"
    /\ ui.shown # << >>
    /\ Answer("DELETE", <<"cleanup">>, NoBody)
    /\ ui' = [ui EXCEPT !.shown = << >>]      \* 'Recycle bin is empty'
    /\ UNCHANGED <<events, loop, local>>

\* Restore on a listed task: lines 688-702
RestoreClick ==
    /\ ui.pc = "idle"
    /\ \E id \in IdsOf(ui.shown) :
          /\ Answer("PATCH", <<id, "restore">>, NoBody)
          /\ ui' = [ui EXCEPT !.shown = Splice(@, FindIndex(@, id))]
    /\ UNCHANGED <<events, loop, local>>

\* TodoApp.deleteTask, confirmed: lines 569-575
DeleteClick ==
    /\ ui.pc = "idle"
    /\ \E id \in {Uuid(k) : k \in 1..issued} :
          Answer("PATCH", <<id, "recycle">>, NoBody)
    /\ ui' = [ui EXCEPT !.alert = PlacedInBin]
    /\ UNCHANGED <<events, loop, local>>

NextApp ==
    \/ ShowRecycleBinList
    \/ ShowRecycleBinCleanup
    \/ EmptyBinClick
    \/ RestoreClick
    \/ DeleteClick

SpecApp == InitSweep /\ [][NextApp]_vars

---------------------------------------------------------------------------
(* Concurrent callers.  SpecLoop takes a handler apart into its file reads *)
(* and writes (readTodos, readRecycled, writeTodos, writeRecycled, each a  *)
(* synchronous fs call) and lets several requests reach the server         *)
(* together.  A handler is one callback of Node's event loop and calls     *)
(* nothing asynchronous, so the loop starts the next handler only when the *)
(* one under way has returned.                                             *)

\* the file accesses of a handler that finds its task, in the order of its
\* statements
HandlerSteps(h) ==
    CASE h \in {"postTodo", "putTodo", "toggle"} -> <<"readTodos", "writeTodos">>
      [] h \in {"recycle", "restore"} ->
            <<"readTodos", "readRecycled", "writeTodos", "writeRecycled">>
      [] h \in {"deleteTodo", "cleanup"} -> <<"readRecycled", "writeRecycled">>
      [] h = "getTodos" -> <<"readTodos">>
      [] h = "getRecycled" -> <<"readRecycled">>
      [] OTHER -> << >>

\* what the handler of frame f computes from the files as it read them
Out(f) ==
    Handle(f.T, f.R, f.r.method, f.r.path, f.r.body, Uuid(issued + 1), now)

\* the statement frame f is at: a file access, or the response; a handler
\* that answers 404 returns before its writes
StepOf(f) ==
    LET steps == HandlerSteps(Dispatch(f.r.method, f.r.path))
        next  == IF f.done < Len(steps) THEN steps[f.done + 1] ELSE "respond"
    IN  IF next \in {"writeTodos", "writeRecycled"} /\ Out(f).res.status = 404
        THEN "respond"
        ELSE next

\* frame f one statement further, with the file it has read
Advance(f, T, R) == [f EXCEPT !.done = f.done + 1, !.T = T, !.R = R]

Replace(f, g) == [loop EXCEPT !.frames = (loop.frames \ {f}) \cup {g}]

\* handlers awaiting their file accesses: the loop may start one while
\* another is under way
HandlersAwait == TRUE

\* the call stack is empty: no handler is between its first statement and
\* its return
CallStackEmpty == loop.frames = {}

\* the event loop runs the handler of a waiting request
StartHandler ==
    /\ CallStackEmpty
    /\ \E r \in loop.queue :
          loop' = [loop EXCEPT !.queue = loop.queue \ {r},
                               !.frames = loop.frames \cup
                                   {[r |-> r, done |-> 0, T |-> << >>, R |-> << >>]}]
    /\ UNCHANGED <<todos, recycled, now, issued, req, res, purged, events, ui, local>>

ReadTodos ==
    /\ \E f \in loop.frames :
          /\ StepOf(f) = "readTodos"
          /\ loop' = Replace(f, Advance(f, todos, f.R))
    /\ UNCHANGED <<todos, recycled, now, issued, req, res, purged, events, ui, local>>

ReadRecycled ==
    /\ \E f \in loop.frames :
          /\ StepOf(f) = "readRecycled"
          /\ loop' = Replace(f, Advance(f, f.T, recycled))
    /\ UNCHANGED <<todos, recycled, now, issued, req, res, purged, events, ui, local>>

WriteTodos ==
    /\ \E f \in loop.frames :
          /\ StepOf(f) = "writeTodos"
          /\ todos' = Out(f).todos
          /\ loop' = Replace(f, Advance(f, f.T, f.R))
    /\ UNCHANGED <<recycled, now, issued, req, res, purged, events, ui, local>>

WriteRecycled ==
    /\ \E f \in loop.frames :
          /\ StepOf(f) = "writeRecycled"
          /\ recycled' = Out(f).recycled
          /\ loop' = Replace(f, Advance(f, f.T, f.R))
    /\ UNCHANGED <<todos, now, issued, req, res, purged, events, ui, local>>

\* res.json(...): the handler returns
Respond ==
    /\ \E f \in loop.frames :
          LET h == Dispatch(f.r.method, f.r.path)
          IN  /\ StepOf(f) = "respond"
              /\ req' = [method |-> f.r.method, path |-> f.r.path]
              /\ res' = Out(f).res
              /\ issued' = IF h = "postTodo" THEN issued + 1 ELSE issued
              /\ purged' = IF h = "deleteTodo" /\ Out(f).res.status = 200
                           THEN purged \cup {f.r.path[1]} ELSE purged
              /\ loop' = [loop EXCEPT !.frames = loop.frames \ {f}]
    /\ UNCHANGED <<todos, recycled, now, events, ui, local>>

\* the requests that can arrive together
LoopRequests ==
    {[method |-> "PATCH",  path |-> <<Uuid(1), "recycle">>, body |-> NoBody],
     [method |-> "PATCH",  path |-> <<Uuid(2), "restore">>, body |-> NoBody],
     [method |-> "PATCH",  path |-> <<Uuid(1), "toggle">>,  body |-> NoBody],
     [method |-> "DELETE", path |-> <<Uuid(2)>>,            body |-> NoBody],
     [method |-> "DELETE", path |-> <<"cleanup">>,          body |-> NoBody],
     [method |-> "PUT",    path |-> <<Uuid(1)>>,   body |-> [title |-> "Call mom"]],
     [method |-> "POST",   path |-> << >>,         body |-> FormBody]}

\* one active task, one recycled a second ago, and the requests waiting
InitLoop ==
    /\ local = LocalEmpty
    /\ todos = <<Spread(Spread([id |-> Uuid(1)], FormBody), [createdAt |-> 0])>>
    /\ recycled = <<Spread(Spread([id |-> Uuid(2)], FormBody),
                           [createdAt |-> 0, deletedAt |-> 0])>>
    /\ now = 1
    /\ issued = 2
    /\ req = [method |-> "", path |-> << >>]
    /\ res = [status |-> 0, body |-> NoBody]
    /\ purged = {}
    /\ events = 0
    /\ ui = ViewClosed
    /\ \E Q \in SUBSET LoopRequests :
          /\ Cardinality(Q) \in 1..MaxCallers
          /\ loop = [queue |-> Q, frames |-> {},
                     first |-> [todos |-> todos, recycled |-> recycled, queue |-> Q]]

NextLoop ==
    \/ StartHandler
    \/ ReadTodos
    \/ ReadRecycled
    \/ WriteTodos
    \/ WriteRecycled
    \/ Respond

SpecLoop == InitLoop /\ [][NextLoop]_vars

---------------------------------------------------------------------------
(* The server process stopping.  SpecCrash is SpecLoop with the process    *)
(* able to stop after any statement of the handler under way: what the     *)
(* handler has written stays in the files, the rest of it never runs, and  *)
(* the requests still waiting are dropped.  Among the requests is a create *)
(* whose body names the identifier of a stored task.                       *)

CrashRequests ==
    LoopRequests \cup
        {[method |-> "POST", path |-> << >>,
          body |-> Spread(FormBody, [id |-> Uuid(2)])]}

InitCrash ==
    /\ local = LocalEmpty
    /\ todos = <<Spread(Spread([id |-> Uuid(1)], FormBody), [createdAt |-> 0])>>
    /\ recycled = <<Spread(Spread([id |-> Uuid(2)], FormBody),
                           [createdAt |-> 0, deletedAt |-> 0])>>
    /\ now = 1
    /\ issued = 2
    /\ req = [method |-> "", path |-> << >>]
    /\ res = [status |-> 0, body |-> NoBody]
    /\ purged = {}
    /\ events = 0
    /\ ui = ViewClosed
    /\ \E Q \in SUBSET CrashRequests :
          /\ Cardinality(Q) \in 1..MaxCallers
          /\ loop = [queue |-> Q, frames |-> {},
                     first |-> [todos |-> todos, recycled |-> recycled, queue |-> Q]]

\* the process stops with a handler under way; events counts the stops
Crash ==
    /\ loop.frames # {}
    /\ events' = events + 1
    /\ loop' = [loop EXCEPT !.queue = {}, !.frames = {}]
    /\ UNCHANGED <<todos, recycled, now, issued, req, res, purged, ui, local>>

NextCrash ==
    \/ NextLoop
    \/ Crash

SpecCrash == InitCrash /\ [][NextCrash]_vars

---------------------------------------------------------------------------
(* The order of the two arrays.  SpecOrder starts from a full recycle bin  *)
(* of SpecSweep and serves a few requests that find their task: creates,   *)
(* deletes, restores, permanent deletes, and the cleanup handler.          *)

InitOrder ==
    /\ InitSweep
    /\ Len(recycled) = MaxBin

\* a request of a run of SpecOrder
Move(method, path, body) ==
    /\ events < MaxMoves
    /\ events' = events + 1
    /\ Answer(method, path, body)
    /\ UNCHANGED <<ui, loop, local>>

\* the add-task form
CreateTask == \E body \in {FormBody} : Move("POST", << >>, body)

DeleteTask == \E id \in IdsOf(todos) : Move("PATCH", <<id, "recycle">>, NoBody)

RestoreTask == \E id \in IdsOf(recycled) : Move("PATCH", <<id, "restore">>, NoBody)

PurgeTask == \E id \in IdsOf(recycled) : Move("DELETE", <<id>>, NoBody)

NextOrder ==
    \/ CreateTask
    \/ DeleteTask
    \/ RestoreTask
    \/ PurgeTask
    \/ CleanupHandler

SpecOrder == InitOrder /\ [][NextOrder]_vars

---------------------------------------------------------------------------
(* The Storage module on its own.  SpecStorage calls its functions on an   *)
(* empty localStorage, with the clock moving on between some calls and     *)
(* standing still between others: Date.now() gives the same number to two  *)
(* calls that fall within one unit of the clock.                           *)

\* identifiers a caller can name: those of the stored tasks
LocalIds == IdsOf(local.todoTasks) \cup IdsOf(local.recycledTasks)

\* the fields a caller of updateTask passes
UpdateBodies == {[title |-> "Call mom"], [updatedAt |-> 0]}

\* a call of a function of Storage that leaves localStorage as ls
Call(ls) ==
    /\ events < MaxEvents
    /\ events' = events + 1
    /\ local' = ls
    /\ UNCHANGED <<todos, recycled, now, issued, req, res, purged, ui, loop>>

StorageAddTask == \E task \in {FormBody} : Call(addTask(local, task, now))

StorageUpdateTask ==
    \E taskId \in LocalIds, updatedTask \in UpdateBodies :
        Call(updateTask(local, taskId, updatedTask))

StorageToggleTaskStatus ==
    \E taskId \in LocalIds : Call(toggleTaskStatus(local, taskId))

StorageDeleteTask == \E taskId \in LocalIds : Call(deleteTask(local, taskId, now))

StoragePermanentlyDeleteTask ==
    \E taskId \in LocalIds : Call(permanentlyDeleteTask(local, taskId))

StorageRestoreTask == \E taskId \in LocalIds : Call(restoreTask(local, taskId))

StorageTick ==
    /\ events < MaxEvents
    /\ events' = events + 1
    /\ now' = now + 1
    /\ UNCHANGED <<todos, recycled, issued, req, res, purged, ui, loop, local>>

NextStorage ==
    \/ StorageAddTask
    \/ StorageUpdateTask
    \/ StorageToggleTaskStatus
    \/ StorageDeleteTask
    \/ StoragePermanentlyDeleteTask
    \/ StorageRestoreTask
    \/ StorageTick

SpecStorage == Init /\ [][NextStorage]_vars

---------------------------------------------------------------------------
(* The two stores side by side.  SpecPair gives the server's files and     *)
(* localStorage the same tasks, each with an identifier of its own, and    *)
(* sends every delete, restore and permanent delete to both: to the        *)
(* server's handler and to the function of Storage.                        *)

\* the tasks before the run: MaxBin of them, the first k recycled
PairTask(n) == [id |-> Uuid(n), title |-> "Buy milk", completed |-> FALSE,
                createdAt |-> 0]

InitPair ==
    /\ \E k \in 0..MaxBin :
          /\ recycled = [n \in 1..k |-> Spread(PairTask(n), [deletedAt |-> 0])]
          /\ todos = [n \in 1..(MaxBin - k) |-> PairTask(k + n)]
    /\ local = [todoTasks |-> todos, recycledTasks |-> recycled]
    /\ issued = MaxBin
    /\ now = 1
    /\ req = [method |-> "", path |-> << >>]
    /\ res = [status |-> 0, body |-> NoBody]
    /\ purged = {}
    /\ events = 0
    /\ ui = ViewClosed
    /\ loop = LoopIdle

\* one request given to both stores
Both(method, path, ls) ==
    /\ events < MaxEvents
    /\ events' = events + 1
    /\ Answer(method, path, NoBody)
    /\ local' = ls
    /\ UNCHANGED <<ui, loop>>

PairDelete ==
    \E id \in {Uuid(n) : n \in 1..issued} :
        Both("PATCH", <<id, "recycle">>, deleteTask(local, id, now))

PairRestore ==
    \E id \in {Uuid(n) : n \in 1..issued} :
        Both("PATCH", <<id, "restore">>, restoreTask(local, id))

PairPurge ==
    \E id \in {Uuid(n) : n \in 1..issued} :
        Both("DELETE", <<id>>, permanentlyDeleteTask(local, id))

NextPair ==
    \/ PairDelete
    \/ PairRestore
    \/ PairPurge

SpecPair == InitPair /\ [][NextPair]_vars

---------------------------------------------------------------------------
(* Properties                                                              *)

\* a step in which the server answers the request `method /api/todos/path`
Answers(method, path) ==
    /\ events' = events + 1
    /\ now' = now
    /\ req' = [method |-> method, path |-> path]

\* i is the place of the first task of arr that carries id
FirstAt(arr, id, i) ==
    /\ i \in 1..Len(arr)
    /\ arr[i].id = id
    /\ \A j \in 1..(i - 1) : arr[j].id # id

\* arr with the task at place i taken out, the others in their order
Removed(arr, i) ==
    [k \in 1..(Len(arr) - 1) |-> IF k < i THEN arr[k] ELSE arr[k + 1]]

\* the task o with field k set to t
Stamped(o, k, t) == [f \in DOMAIN o \cup {k} |-> IF f = k THEN t ELSE o[f]]

\* a and b carry the same fields with the same values, deletedAt and
\* restoredAt aside
AgreeButStamps(a, b) ==
    LET Rest(o) == DOMAIN o \ {"deletedAt", "restoredAt"}
    IN  /\ Rest(a) = Rest(b)
        /\ \A k \in Rest(a) : a[k] = b[k]

AllTasks == todos \o recycled

\* C1: no identifier occurs twice in the Active Set and the Recycle Set
\* taken together, whatever requests the server has answered.
C1_IdInAtMostOnePlace ==
    \A i, j \in 1..Len(AllTasks) : i # j => AllTasks[i].id # AllTasks[j].id

\* C2: a task carries deletedAt exactly when it is in the Recycle Set: no
\* active task has the field and every recycled task has it.
C2_DeletedAtIffRecycled ==
    /\ \A i \in 1..Len(todos) : ~Has(todos[i], "deletedAt")
    /\ \A i \in 1..Len(recycled) : Has(recycled[i], "deletedAt")

C4_DeleteClearsRestoredAt ==
    (/\ req.method = "PATCH"
     /\ Len(req.path) = 2 /\ req.path[2] = "recycle"
     /\ res.status = 200)
        => /\ ~Has(res.body, "restoredAt")
           /\ ~Has(recycled[Len(recycled)], "restoredAt")

C6_DeleteThenRestore ==
    \A i \in 1..Len(todos) : \A later \in {now, now + 1} :
        LET id == todos[i].id
            d  == Handle(todos, recycled, "PATCH", <<id, "recycle">>, NoBody,
                         Uuid(issued + 1), now)
            r  == Handle(d.todos, d.recycled, "PATCH", <<id, "restore">>, NoBody,
                         Uuid(issued + 1), later)
        IN  /\ d.res.status = 200
            /\ r.res.status = 200
            /\ AgreeButStamps(r.res.body, todos[i])
            /\ ~Has(r.res.body, "deletedAt")
            /\ r.res.body.restoredAt = later
            /\ r.todos = Append(Removed(todos, i), r.res.body)
            /\ r.recycled = recycled

\* C7: a permanent-delete request for an identifier that is not in the
\* Recycle Set (one of the Active Set included) is answered 404 and leaves
\* both sets as they were.
C7_PurgeAbsentIsNotFound ==
    [][\A seg \in KnownIds :
          (Answers("DELETE", <<seg>>) /\ seg \notin IdsOf(recycled)) =>
              /\ res' = [status |-> 404, body |-> [error |-> NotFoundRecycled]]
              /\ todos' = todos
              /\ recycled' = recycled
      ]_vars

\* C7 happens: the request named a task of the Active Set, with the Recycle
\* Set not empty.
C7_Witness ==
    /\ req.method = "DELETE"
    /\ res.status = 404
    /\ req.path[1] \in IdsOf(todos)
    /\ recycled # << >>

\* C8: a permanent-delete request for an identifier of the Recycle Set takes
\* exactly that task out of the Recycle Set and leaves the Active Set alone,
\* and an identifier so removed is in neither set in any later state.
C8_PurgeIsFinal ==
    /\ \A id \in IdsOf(recycled) :
          LET out == Handle(todos, recycled, "DELETE", <<id>>, NoBody,
                            Uuid(issued + 1), now)
          IN  /\ out.res.status = 200
              /\ out.todos = todos
              /\ \E i \in 1..Len(recycled) :
                    FirstAt(recycled, id, i) /\ out.recycled = Removed(recycled, i)
    /\ \A id \in purged : id \notin IdsOf(todos) \cup IdsOf(recycled)

\* C9: the retention sweep keeps exactly the recycled tasks younger than the
\* window and discards exactly those whose age is the window or more, and
\* answers with the number discarded; so a task deleted a second less than
\* the window ago stays, one deleted a second more than the window ago goes,
\* and of tasks deleted 40, 20 and 5 days ago only the first goes.
C9_SweepPartition ==
    [][Answers("DELETE", <<"cleanup">>) =>
          LET Young(todo) == now - todo.deletedAt < Window
          IN  /\ recycled' = SelectSeq(recycled, Young)
              /\ res'.status = 200
              /\ res'.body.removedCount =
                    Cardinality({i \in 1..Len(recycled) : ~Young(recycled[i])})
      ]_vars

\* C10: the server's sweep purges a task whose deletedAt equals the cutoff
\* (now - 30 days): every task it leaves was deleted strictly after it.
C10_BoundaryIsExpired ==
    [][Answers("DELETE", <<"cleanup">>) =>
          \A i \in 1..Len(recycled') : recycled'[i].deletedAt > now - Window
      ]_vars


\* C11: a second sweep at the same instant discards nothing and leaves the
\* Recycle Set as the first sweep left it, for the server's sweep and for
\* Storage.cleanupRecycleBin.
C11_SweepIdempotent ==
    LET first  == cleanup(todos, recycled, now)
        second == cleanup(first.todos, first.recycled, now)
        stored == cleanupRecycleBin(recycled, now)
    IN  /\ second.recycled = first.recycled
        /\ second.res.body.removedCount = 0
        /\ cleanupRecycleBin(stored, now) = stored

\* C11 happens: two sweeps in a row with the clock standing still, the first
\* of which removed something.
C11_Witness ==
    /\ events = 2
    /\ now = SweepNow
    /\ req = [method |-> "DELETE", path |-> <<"cleanup">>]
    /\ res.body.removedCount = 0
    /\ Len(recycled) < issued
    /\ recycled # << >>

\* C13: a DELETE /api/todos/cleanup request is given to the retention-sweep
\* handler and answered 200 with removedCount; it is not treated as the
\* permanent delete of a task called 'cleanup'.
C13_CleanupReachesSweep ==
    req = [method |-> "DELETE", path |-> <<"cleanup">>] =>
        /\ Dispatch(req.method, req.path) = "cleanup"
        /\ res.status = 200
        /\ Has(res.body, "removedCount")

\* C16: the identifier a create gives to the new task is none that is, or
\* was, the identifier of another task: not one of the Active Set, of the
\* Recycle Set, or of a task already purged.
C16_IdsNeverReused ==
    [][Answers("POST", << >>) =>
          res'.body.id \notin (IdsOf(todos) \cup IdsOf(recycled) \cup purged)
      ]_vars

\* C17: an edit, a toggle, a delete or a restore answers with a task that
\* still carries the identifier the request named.
C17_IdStable ==
    [][\A id \in KnownIds :
          ((\/ Answers("PUT", <<id>>)
            \/ Answers("PATCH", <<id, "toggle">>)
            \/ Answers("PATCH", <<id, "recycle">>)
            \/ Answers("PATCH", <<id, "restore">>))
           /\ res'.status = 200) => res'.body.id = id
      ]_vars

\* C20: an edit, a toggle or a delete naming an identifier that is not in
\* the Active Set, and a restore naming one that is not in the Recycle Set,
\* is answered 404 and leaves both sets as they were.
C20_AbsentIsNotFound ==
    [][\A id \in KnownIds :
          /\ ((\/ Answers("PUT", <<id>>)
               \/ Answers("PATCH", <<id, "toggle">>)
               \/ Answers("PATCH", <<id, "recycle">>))
              /\ id \notin IdsOf(todos)) =>
                  /\ res' = [status |-> 404, body |-> [error |-> NotFoundTodo]]
                  /\ todos' = todos
                  /\ recycled' = recycled
          /\ (Answers("PATCH", <<id, "restore">>) /\ id \notin IdsOf(recycled)) =>
                  /\ res' = [status |-> 404, body |-> [error |-> NotFoundRecycled]]
                  /\ todos' = todos
                  /\ recycled' = recycled
      ]_vars

\* C20 happens: an edit named a task that sits in the Recycle Set.
C20_Witness ==
    /\ req.method = "PUT"
    /\ res.status = 404
    /\ req.path[1] \in IdsOf(recycled)
    /\ req.path[1] \notin IdsOf(todos)

\* C15: no task of the Active Set has an empty title: a create or an edit
\* with an empty title is turned down before anything is stored.
C15_NoEmptyTitle ==
    \A i \in 1..Len(todos) : Has(todos[i], "title") /\ todos[i].title # ""

Stale(todo) == now - todo.deletedAt >= Window

\* C12: when the view of the recycle bin is opened, the tasks it lists have
\* been swept first: none of them has an age at or beyond the window.
C12_ViewListsNoStaleTask ==
    [][(ui.pc = "idle" /\ ui'.pc = "listed") =>
          \A i \in 1..Len(ui'.shown) : ~Stale(ui'.shown[i])
      ]_vars

\* C14: with the user opening the view again and again, the time comes when
\* no task older than the window is left in the Recycle Set.
C14_OldTasksEventuallyGo ==
    <>(\A i \in 1..Len(recycled) : now - recycled[i].deletedAt <= Window)
\* the stores that serving the requests of Q one after another, each handler
\* as a whole, can leave, starting from todos T and recycle bin R
RECURSIVE SerialOutcomes(_, _, _)
SerialOutcomes(T, R, Q) ==
    IF Q = {} THEN {<<T, R>>}
    ELSE UNION {LET out == Handle(T, R, r.method, r.path, r.body, Uuid(3), now)
                IN  SerialOutcomes(out.todos, out.recycled, Q \ {r}) : r \in Q}

\* C19: a handler under way still sees in the files what it read from them
\* (none of its writes is computed from a stale snapshot), and once all the
\* concurrent requests are answered the two files are what serving them one
\* after another, in some order, leaves: no update is lost.
C19_HandlersDoNotInterleave ==
    /\ \A f \in loop.frames :
          /\ StepOf(f) = "writeTodos" => f.T = todos
          /\ StepOf(f) = "writeRecycled"
                 /\ Dispatch(f.r.method, f.r.path) \in {"deleteTodo", "cleanup"}
                 => f.R = recycled
          /\ StepOf(f) = "writeRecycled"
                 /\ Dispatch(f.r.method, f.r.path) \in {"recycle", "restore"}
                 => f.R = recycled /\ todos = Out(f).todos
    /\ loop.first.queue # {} /\ loop.queue = {} /\ loop.frames = {}
          => <<todos, recycled>> \in
                SerialOutcomes(loop.first.todos, loop.first.recycled, loop.first.queue)

\* a Delete and a Restore that arrived together have both been served
C19_Witness ==
    /\ Cardinality(loop.first.queue) >= 2
    /\ loop.queue = {} /\ loop.frames = {}
    /\ Uuid(1) \in IdsOf(recycled)
    /\ Uuid(2) \in IdsOf(todos)


\* C21: an edit or a toggle changes at most the (first) active task that
\* carries the identifier named: every other active task and the whole
\* Recycle Set stay as they were, and an identifier that is in the Recycle
\* Set is answered 404.
C21_EditAndToggleStayInActiveSet ==
    [][\A id \in KnownIds :
          (Answers("PUT", <<id>>) \/ Answers("PATCH", <<id, "toggle">>)) =>
              /\ recycled' = recycled
              /\ Len(todos') = Len(todos)
              /\ \A j \in 1..Len(todos) : ~FirstAt(todos, id, j) => todos'[j] = todos[j]
              /\ id \in IdsOf(recycled) => res'.status = 404
      ]_vars


StampedAt(arr, id, t) ==
    LET i == FindIndex(arr, id)
    IN  Has(arr[i], "updatedAt") /\ arr[i].updatedAt = t

\* C23: an edit or a toggle of a stored task leaves the task with updatedAt
\* set to the current time, whatever updatedAt the caller passed: for the
\* server's PUT and toggle handlers and for Storage.updateTask and
\* Storage.toggleTaskStatus.
C23_UpdateStampsUpdatedAt ==
    \A id \in IdsOf(local.todoTasks) :
        /\ \A body \in UpdateBodies :
              /\ StampedAt(putTodo(local.todoTasks, << >>, id, body, now).todos, id, now)
              /\ StampedAt(updateTask(local, id, body).todoTasks, id, now)
        /\ StampedAt(toggle(local.todoTasks, << >>, id, now).todos, id, now)
        /\ StampedAt(toggleTaskStatus(local, id).todoTasks, id, now)


\* the number of tasks of arr that carry id
Count(arr, id) == Cardinality({i \in 1..Len(arr) : arr[i].id = id})

\* the handler of frame f is between its write of todos.json and its write
\* of recycled.json
BetweenWrites(f) ==
    /\ Dispatch(f.r.method, f.r.path) \in {"recycle", "restore"}
    /\ StepOf(f) = "writeRecycled"

\* C24: when the process stops between the two writes of a delete, the
\* task is in neither file; between the two writes of a restore, it is in
\* both; and in no other case is a task lost or duplicated: a stop at any
\* other statement leaves every task where it was, and as long as the
\* process has not stopped, between requests every task that was stored or
\* created is in the two files exactly once unless it was purged.
C24_OnlyACrashLosesOrDuplicates ==
    [][/\ (events' = events + 1) =>
            \A f \in loop.frames :
                LET h  == Dispatch(f.r.method, f.r.path)
                    id == f.r.path[1]
                IN  /\ (BetweenWrites(f) /\ h = "recycle") =>
                          Count(todos', id) + Count(recycled', id) = 0
                    /\ (BetweenWrites(f) /\ h = "restore") =>
                          Count(todos', id) >= 1 /\ Count(recycled', id) >= 1
                    /\ ~BetweenWrites(f) =>
                          \A i \in IdsOf(todos) \cup IdsOf(recycled) :
                              Count(todos', i) + Count(recycled', i) = 1
       /\ (events' = 0 /\ loop'.frames = {}) =>
            \A i \in IdsOf(loop.first.todos) \cup IdsOf(loop.first.recycled)
                      \cup IdsOf(todos') \cup IdsOf(recycled') :
                Count(todos', i) + Count(recycled', i) = 1 \/ i \in purged'
      ]_vars


\* C25: once the user has confirmed Empty Recycle Bin and the view says
\* 'Recycle bin is empty', the server's Recycle Set is empty: a GET
\* /api/todos/recycled sent then gives the empty list the view shows.
C25_EmptyBinEmptiesTheBin ==
    [][(/\ ui.pc = "idle"
        /\ ui.shown # << >>
        /\ ui'.shown = << >>
        /\ req' = [method |-> "DELETE", path |-> <<"cleanup">>]) =>
            /\ recycled' = << >>
            /\ getRecycledTasks(Handle(todos', recycled', "GET", <<"recycled">>,
                                        NoBody, Uuid(issued' + 1), now').res)
                   = ui'.shown
      ]_vars

\* C29: the notice 'Task has been placed in the recycle bin.' is shown only
\* when the recycle request was answered 200 and the task is in the Recycle
\* Set; a 404 brings no such notice.
C29_NoticeOnlyAfterSuccess ==
    [][\A id \in {Uuid(k) : k \in 1..issued} :
          (/\ req' = [method |-> "PATCH", path |-> <<id, "recycle">>]
           /\ ui'.alert = PlacedInBin) =>
              /\ res'.status = 200
              /\ id \in IdsOf(recycled')
              /\ id \notin IdsOf(todos')
      ]_vars


\* a task deleted exactly at the cutoff of a sweep run at time t
AtCutoff(todo, t) == Has(todo, "deletedAt") /\ todo.deletedAt = t - Window

\* C26: on the same Recycle Set at the same time, the server's sweep and
\* Storage.cleanupRecycleBin keep the same tasks in the same order when no
\* task was deleted exactly at the cutoff; in general what the two keep
\* differs by the tasks at the cutoff and by nothing else.
C26_SweepsAgreeOffTheCutoff ==
    [][Answers("DELETE", <<"cleanup">>) =>
          LET stored         == cleanupRecycleBin(recycled, now)
              OffCutoff(todo) == ~AtCutoff(todo, now)
          IN  /\ (\A i \in 1..Len(recycled) : OffCutoff(recycled[i]))
                    => recycled' = stored
              /\ stored = SelectSeq(recycled', OffCutoff)
      ]_vars

\* C26 happens: a sweep of a bin with no task at the cutoff has discarded
\* some tasks and kept others.
C26_Witness ==
    /\ req = [method |-> "DELETE", path |-> <<"cleanup">>]
    /\ res.body.removedCount > 0
    /\ recycled # << >>
    /\ \A i \in 1..Len(recycled) : ~AtCutoff(recycled[i], now)


\* C27: whatever calls of addTask, deleteTask, restoreTask and
\* permanentlyDeleteTask were made, no two tasks of todoTasks and
\* recycledTasks taken together carry the same id.
C27_StorageIdsUnique ==
    LET all == local.todoTasks \o local.recycledTasks
    IN  \A i, j \in 1..Len(all) : i # j => all[i].id # all[j].id


\* the identifiers of the tasks of arr, in the order of arr
IdList(arr) == [i \in 1..Len(arr) |-> arr[i].id]

\* a and b carry the same fields with the same values, restoredAt and
\* updatedAt aside
AgreeButRestoreStamps(a, b) ==
    LET Rest(o) == DOMAIN o \ {"restoredAt", "updatedAt"}
    IN  /\ Rest(a) = Rest(b)
        /\ \A k \in Rest(a) : a[k] = b[k]

\* C28: given the same tasks and the same deletes, restores and permanent
\* deletes, the server's files and localStorage hold the same identifiers
\* in the same order, active and recycled, and task by task the same fields
\* but for restoredAt and updatedAt.
C28_StorageFollowsServer ==
    /\ IdList(local.todoTasks) = IdList(todos)
    /\ IdList(local.recycledTasks) = IdList(recycled)
    /\ \A i \in 1..Len(todos) : AgreeButRestoreStamps(local.todoTasks[i], todos[i])
    /\ \A i \in 1..Len(recycled) :
          AgreeButRestoreStamps(local.recycledTasks[i], recycled[i])

\* C28 happens: after a restore that the server stamped and Storage did
\* not, with a task in the bin and the last request turned down by the
\* server.
C28_Witness ==
    /\ events >= 3
    /\ res.status = 404
    /\ local.recycledTasks # << >>
    /\ \E i \in 1..Len(todos) :
          Has(todos[i], "restoredAt") /\ ~Has(local.todoTasks[i], "restoredAt")


\* the tasks of arr, as a set
TasksOf(arr) == {arr[i] : i \in 1..Len(arr)}

\* C30: a sweep leaves the Active Set as it was, and every task it leaves
\* in the Recycle Set is a task that was there, with every field as it was;
\* so is every task Storage.cleanupRecycleBin keeps.
C30_SweepOnlyDiscards ==
    [][Answers("DELETE", <<"cleanup">>) =>
          /\ todos' = todos
          /\ TasksOf(recycled') \subseteq TasksOf(recycled)
          /\ Len(recycled') = Len(recycled) - res'.body.removedCount
          /\ TasksOf(cleanupRecycleBin(recycled, now)) \subseteq TasksOf(recycled)
      ]_vars

\* C30 happens: with a task in the Active Set, a sweep has discarded some
\* recycled tasks and kept others.
C30_Witness ==
    /\ req = [method |-> "DELETE", path |-> <<"cleanup">>]
    /\ res.body.removedCount > 0
    /\ recycled # << >>
    /\ todos # << >>

====
